---- MODULE Spec2Model ----
(***************************************************************************)
(* Model of sih_rfid.ino: the RFID attendance reader firmware.  setup()    *)
(* joins the WiFi network while blinking both LEDs, then loop() polls the  *)
(* MFRC522 reader, builds the UID string, and POSTs it to the server,      *)
(* signalling every step on the red and green LEDs.                        *)
(*                                                                         *)
(* The control flow is single threaded; pc is the position of the sketch.  *)
(* The WiFi link is the environment: it may come up or drop at any step.   *)
(* log is the sequence of externally visible operations (pin writes,       *)
(* delays, WiFi status queries, reader polls, HTTP calls) performed since  *)
(* the last checkpoint (the while test of setup, or the entry of loop()).  *)
(***************************************************************************)
EXTENDS Integers, Sequences, FiniteSets, TLC

VARIABLES pc, red, green, wifi, readerInit, joinStarted, uidBytes, uid, json,
          httpResponseCode, httpOpen, bpin, btimes, bms, bi, bret, log

vars == <<pc, red, green, wifi, readerInit, joinStarted, uidBytes, uid, json,
          httpResponseCode, httpOpen, bpin, btimes, bms, bi, bret, log>>

(* ---------------------------------------------------------------------- *)
(* Bounds of the model and the inputs drawn from the environment.         *)
(* ---------------------------------------------------------------------- *)
MaxUidLen == 2

ByteVals == {1, 3, 18, 35, 52}

ExampleUids == {<<4, 161, 178>>}

TagUids == UNION {[1..n -> ByteVals] : n \in 0..MaxUidLen} \cup ExampleUids

ResponseCodes == {200, 201, 199, 503, 0, -1, -11}

(* ---------------------------------------------------------------------- *)
(* Pins, configuration.                                                   *)
(* ---------------------------------------------------------------------- *)
RED_LED == "D0"

GREEN_LED == "D1"

HIGH == 1

LOW == 0

serverURL == "http://192.168.29.130:5000/api/rfid_scan"

(* ---------------------------------------------------------------------- *)
(* Operations visible from outside, as recorded in log.                   *)
(* ---------------------------------------------------------------------- *)
Ev(e, p, k, str, bytes) ==
    [ev |-> e, pin |-> p, n |-> k, s |-> str, b |-> bytes, link |-> ""]

EvWrite(p, level) == Ev("digitalWrite", p, level, <<>>, <<>>)

EvDelay(ms) == Ev("delay", "", ms, <<>>, <<>>)

EvStatus(connected) == Ev("WiFi.status", "", IF connected THEN 1 ELSE 0, <<>>, <<>>)

EvPoll(found, bytes) == Ev("poll", "", IF found THEN 1 ELSE 0, <<>>, bytes)

EvBegin(url) == Ev("http.begin", "", 0, <<url>>, <<>>)

EvHeader(name, value) == Ev("http.addHeader", "", 0, <<name, value>>, <<>>)

EvPost(body, code, linkUp) ==
    [Ev("http.POST", "", code, body, <<>>) EXCEPT !.link = IF linkUp THEN "up" ELSE "down"]

EvEnd == Ev("http.end", "", 0, <<>>, <<>>)

(* ---------------------------------------------------------------------- *)
(* String(byte, HEX), String::toLowerCase and the UID string of loop().   *)
(* Strings are sequences of one-character strings.                        *)
(* The locals of loop() (uid, json, httpResponseCode) are empty while out *)
(* of scope; httpResponseCode is <<code>> once POST has returned.         *)
(* ---------------------------------------------------------------------- *)
DigitChars == <<"0", "1", "2", "3", "4", "5", "6", "7", "8", "9",
                "a", "b", "c", "d", "e", "f">>

RECURSIVE Utoa(_, _)
Utoa(value, base) ==
    IF value < base
    THEN <<DigitChars[value + 1]>>
    ELSE Utoa(value \div base, base) \o <<DigitChars[(value % base) + 1]>>

StringOfByte(value, base) == Utoa(value, base)

ToLowerChar(c) ==
    CASE c = "A" -> "a"
      [] c = "B" -> "b"
      [] c = "C" -> "c"
      [] c = "D" -> "d"
      [] c = "E" -> "e"
      [] c = "F" -> "f"
      [] OTHER -> c

ToLowerCase(str) == [i \in 1..Len(str) |-> ToLowerChar(str[i])]

RECURSIVE ConcatBytes(_, _)
ConcatBytes(bytes, i) ==
    IF i > Len(bytes)
    THEN <<>>
    ELSE StringOfByte(bytes[i], 16) \o ConcatBytes(bytes, i + 1)

UidString(bytes) == ToLowerCase(ConcatBytes(bytes, 1))

JsonBody_unquoted(u) == <<"{", "\"", "u", "i", "d", "\"", ":">> \o u \o <<"}">>

JsonBody(u) == <<"{", "\"", "u", "i", "d", "\"", ":", "\"">> \o u \o <<"\"", "}">>

(* ---------------------------------------------------------------------- *)
(* Initial state: power-on, before setup() runs.                          *)
(* ---------------------------------------------------------------------- *)
Init ==
    /\ pc = "setup_init"
    /\ red = FALSE
    /\ green = FALSE
    /\ wifi = FALSE
    /\ readerInit = FALSE
    /\ joinStarted = FALSE
    /\ uidBytes = <<>>
    /\ uid = <<>>
    /\ json = <<>>
    /\ httpResponseCode = <<>>
    /\ httpOpen = FALSE
    /\ bpin = ""
    /\ btimes = 0
    /\ bms = 0
    /\ bi = 0
    /\ bret = ""
    /\ log = <<>>

(* ---------------------------------------------------------------------- *)
(* blinkLED(pin, times, delayMs)                                          *)
(* ---------------------------------------------------------------------- *)
CallBlink(p, times, delayMs, ret) ==
    /\ pc' = "blink"
    /\ bpin' = p
    /\ btimes' = times
    /\ bms' = delayMs
    /\ bi' = 0
    /\ bret' = ret

SetPin(p, level) ==
    /\ red' = IF p = RED_LED THEN (level = HIGH) ELSE red
    /\ green' = IF p = GREEN_LED THEN (level = HIGH) ELSE green

BlinkHigh_extracycle ==
    /\ pc = "blink"
    /\ bi <= btimes
    /\ SetPin(bpin, HIGH)
    /\ log' = log \o <<EvWrite(bpin, HIGH), EvDelay(bms)>>
    /\ pc' = "blink_low"
    /\ UNCHANGED <<wifi, readerInit, joinStarted, uidBytes, uid, json,
                   httpResponseCode, httpOpen, bpin, btimes, bms, bi, bret>>

BlinkHigh ==
    /\ pc = "blink"
    /\ bi < btimes
    /\ SetPin(bpin, HIGH)
    /\ log' = log \o <<EvWrite(bpin, HIGH), EvDelay(bms)>>
    /\ pc' = "blink_low"
    /\ UNCHANGED <<wifi, readerInit, joinStarted, uidBytes, uid, json,
                   httpResponseCode, httpOpen, bpin, btimes, bms, bi, bret>>

BlinkLow_bothoff ==
    /\ pc = "blink_low"
    /\ red' = FALSE
    /\ green' = FALSE
    /\ log' = log \o <<EvWrite(RED_LED, LOW), EvWrite(GREEN_LED, LOW), EvDelay(bms)>>
    /\ bi' = bi + 1
    /\ pc' = "blink"
    /\ UNCHANGED <<wifi, readerInit, joinStarted, uidBytes, uid, json,
                   httpResponseCode, httpOpen, bpin, btimes, bms, bret>>

BlinkLow ==
    /\ pc = "blink_low"
    /\ SetPin(bpin, LOW)
    /\ log' = log \o <<EvWrite(bpin, LOW), EvDelay(bms)>>
    /\ bi' = bi + 1
    /\ pc' = "blink"
    /\ UNCHANGED <<wifi, readerInit, joinStarted, uidBytes, uid, json,
                   httpResponseCode, httpOpen, bpin, btimes, bms, bret>>

BlinkReturn ==
    /\ pc = "blink"
    /\ ~(bi < btimes)
    /\ pc' = bret
    /\ bpin' = ""
    /\ btimes' = 0
    /\ bms' = 0
    /\ bi' = 0
    /\ bret' = ""
    /\ UNCHANGED <<red, green, wifi, readerInit, joinStarted, uidBytes, uid, json,
                   httpResponseCode, httpOpen, log>>

(* ---------------------------------------------------------------------- *)
(* setup()                                                                *)
(* ---------------------------------------------------------------------- *)
SetupInit_noreader ==
    /\ pc = "setup_init"
    /\ readerInit' = readerInit
    /\ pc' = "wifi_begin"
    /\ UNCHANGED <<red, green, wifi, joinStarted, uidBytes, uid, json,
                   httpResponseCode, httpOpen, bpin, btimes, bms, bi, bret, log>>

SetupInit ==
    /\ pc = "setup_init"
    /\ readerInit' = TRUE
    /\ pc' = "wifi_begin"
    /\ UNCHANGED <<red, green, wifi, joinStarted, uidBytes, uid, json,
                   httpResponseCode, httpOpen, bpin, btimes, bms, bi, bret, log>>

SetupWifiBegin ==
    /\ pc = "wifi_begin"
    /\ joinStarted' = TRUE
    /\ pc' = "connect_check"
    /\ UNCHANGED <<red, green, wifi, readerInit, uidBytes, uid, json,
                   httpResponseCode, httpOpen, bpin, btimes, bms, bi, bret, log>>

SetupNotConnected_giveup ==
    /\ pc = "connect_check"
    /\ ~wifi
    /\ log' = <<EvStatus(FALSE)>>
    /\ pc' = "ready_write"
    /\ UNCHANGED <<red, green, wifi, readerInit, joinStarted, uidBytes, uid, json,
                   httpResponseCode, httpOpen, bpin, btimes, bms, bi, bret>>

SetupNotConnected ==
    /\ pc = "connect_check"
    /\ ~wifi
    /\ log' = <<EvStatus(FALSE)>>
    /\ CallBlink(RED_LED, 1, 300, "boot_green")
    /\ UNCHANGED <<red, green, wifi, readerInit, joinStarted, uidBytes, uid, json,
                   httpResponseCode, httpOpen>>

SetupBootGreen ==
    /\ pc = "boot_green"
    /\ CallBlink(GREEN_LED, 1, 300, "connect_check")
    /\ UNCHANGED <<red, green, wifi, readerInit, joinStarted, uidBytes, uid, json,
                   httpResponseCode, httpOpen, log>>

SetupConnected ==
    /\ pc = "connect_check"
    /\ wifi
    /\ log' = <<EvStatus(TRUE)>>
    /\ pc' = "ready_write"
    /\ UNCHANGED <<red, green, wifi, readerInit, joinStarted, uidBytes, uid, json,
                   httpResponseCode, httpOpen, bpin, btimes, bms, bi, bret>>

SetupReady_nogreen ==
    /\ pc = "ready_write"
    /\ log' = <<>>
    /\ pc' = "loop_poll"
    /\ UNCHANGED <<red, green, wifi, readerInit, joinStarted, uidBytes, uid, json,
                   httpResponseCode, httpOpen, bpin, btimes, bms, bi, bret>>

SetupReady ==
    /\ pc = "ready_write"
    /\ SetPin(GREEN_LED, HIGH)
    /\ log' = <<>>
    /\ pc' = "loop_poll"
    /\ UNCHANGED <<wifi, readerInit, joinStarted, uidBytes, uid, json,
                   httpResponseCode, httpOpen, bpin, btimes, bms, bi, bret>>

(* ---------------------------------------------------------------------- *)
(* loop()                                                                 *)
(* ---------------------------------------------------------------------- *)
LoopNoCard_pause ==
    /\ pc = "loop_poll"
    /\ log' = <<EvPoll(FALSE, <<>>)>>
    /\ pc' = "pause"
    /\ UNCHANGED <<red, green, wifi, readerInit, joinStarted, uidBytes, uid, json,
                   httpResponseCode, httpOpen, bpin, btimes, bms, bi, bret>>

LoopNoCard ==
    /\ pc = "loop_poll"
    /\ log' = <<EvPoll(FALSE, <<>>)>>
    /\ pc' = "loop_return"
    /\ UNCHANGED <<red, green, wifi, readerInit, joinStarted, uidBytes, uid, json,
                   httpResponseCode, httpOpen, bpin, btimes, bms, bi, bret>>

LoopCardRead ==
    /\ pc = "loop_poll"
    /\ \E bytes \in TagUids :
          /\ uidBytes' = bytes
          /\ log' = <<EvPoll(TRUE, bytes)>>
    /\ pc' = "build_uid"
    /\ UNCHANGED <<red, green, wifi, readerInit, joinStarted, uid, json,
                   httpResponseCode, httpOpen, bpin, btimes, bms, bi, bret>>

LoopBuildUid_noblink ==
    /\ pc = "build_uid"
    /\ uid' = UidString(uidBytes)
    /\ pc' = "wifi_check"
    /\ UNCHANGED <<red, green, wifi, readerInit, joinStarted, uidBytes, json,
                   httpResponseCode, httpOpen, bpin, btimes, bms, bi, bret, log>>

LoopBuildUid ==
    /\ pc = "build_uid"
    /\ uid' = UidString(uidBytes)
    /\ CallBlink(RED_LED, 1, 150, "wifi_check")
    /\ UNCHANGED <<red, green, wifi, readerInit, joinStarted, uidBytes, json,
                   httpResponseCode, httpOpen, log>>

LoopWifiConnected_nocheck ==
    /\ pc = "wifi_check"
    /\ httpOpen' = TRUE
    /\ json' = JsonBody(uid)
    /\ log' = log \o <<EvStatus(wifi), EvBegin(serverURL),
                       EvHeader("Content-Type", "application/json")>>
    /\ CallBlink(GREEN_LED, 2, 100, "http_post")
    /\ UNCHANGED <<red, green, wifi, readerInit, joinStarted, uidBytes, uid,
                   httpResponseCode>>

LoopWifiConnected ==
    /\ pc = "wifi_check"
    /\ wifi
    /\ httpOpen' = TRUE
    /\ json' = JsonBody(uid)
    /\ log' = log \o <<EvStatus(TRUE), EvBegin(serverURL),
                       EvHeader("Content-Type", "application/json")>>
    /\ CallBlink(GREEN_LED, 2, 100, "http_post")
    /\ UNCHANGED <<red, green, wifi, readerInit, joinStarted, uidBytes, uid,
                   httpResponseCode>>

LoopWifiNotConnected_wrongpattern ==
    /\ pc = "wifi_check"
    /\ ~wifi
    /\ log' = log \o <<EvStatus(FALSE)>>
    /\ CallBlink(RED_LED, 3, 200, "pause")
    /\ UNCHANGED <<red, green, wifi, readerInit, joinStarted, uidBytes, uid, json,
                   httpResponseCode, httpOpen>>

LoopWifiNotConnected_reconnect ==
    /\ pc = "wifi_check"
    /\ ~wifi
    /\ log' = log \o <<EvStatus(FALSE)>>
    /\ CallBlink(RED_LED, 2, 400, "connect_check")
    /\ UNCHANGED <<red, green, wifi, readerInit, joinStarted, uidBytes, uid, json,
                   httpResponseCode, httpOpen>>

LoopWifiNotConnected ==
    /\ pc = "wifi_check"
    /\ ~wifi
    /\ log' = log \o <<EvStatus(FALSE)>>
    /\ CallBlink(RED_LED, 2, 400, "pause")
    /\ UNCHANGED <<red, green, wifi, readerInit, joinStarted, uidBytes, uid, json,
                   httpResponseCode, httpOpen>>

OutcomePattern_anysuccess(code) ==
    IF code > 0
    THEN IF code >= 200 /\ code < 300
         THEN <<GREEN_LED, 3, 200>>
         ELSE <<RED_LED, 3, 200>>
    ELSE <<RED_LED, 5, 100>>

OutcomePattern(code) ==
    IF code > 0
    THEN IF code = 200
         THEN <<GREEN_LED, 3, 200>>
         ELSE <<RED_LED, 3, 200>>
    ELSE <<RED_LED, 5, 100>>

LoopHttpPost ==
    /\ pc = "http_post"
    /\ \E code \in ResponseCodes :
          /\ httpResponseCode' = <<code>>
          /\ log' = log \o <<EvPost(json, code, wifi)>>
          /\ CallBlink(OutcomePattern(code)[1], OutcomePattern(code)[2],
                       OutcomePattern(code)[3], "http_end")
    /\ UNCHANGED <<red, green, wifi, readerInit, joinStarted, uidBytes, uid, json,
                   httpOpen>>

LoopHttpEnd_halt ==
    /\ pc = "http_end"
    /\ httpResponseCode[1] > 0
    /\ httpOpen' = FALSE
    /\ log' = log \o <<EvEnd>>
    /\ pc' = "pause"
    /\ UNCHANGED <<red, green, wifi, readerInit, joinStarted, uidBytes, uid, json,
                   httpResponseCode, bpin, btimes, bms, bi, bret>>

LoopHttpEnd_leak ==
    /\ pc = "http_end"
    /\ IF httpResponseCode = <<200>>
       THEN /\ httpOpen' = FALSE
            /\ log' = log \o <<EvEnd>>
       ELSE /\ httpOpen' = httpOpen
            /\ log' = log
    /\ pc' = "pause"
    /\ UNCHANGED <<red, green, wifi, readerInit, joinStarted, uidBytes, uid, json,
                   httpResponseCode, bpin, btimes, bms, bi, bret>>

LoopHttpEnd_retry ==
    /\ pc = "http_end"
    /\ IF httpResponseCode[1] > 0
       THEN /\ httpOpen' = FALSE
            /\ log' = log \o <<EvEnd>>
            /\ pc' = "pause"
       ELSE /\ httpOpen' = httpOpen
            /\ log' = log
            /\ pc' = "http_post"
    /\ UNCHANGED <<red, green, wifi, readerInit, joinStarted, uidBytes, uid, json,
                   httpResponseCode, bpin, btimes, bms, bi, bret>>

LoopHttpEnd ==
    /\ pc = "http_end"
    /\ httpOpen' = FALSE
    /\ log' = log \o <<EvEnd>>
    /\ pc' = "pause"
    /\ UNCHANGED <<red, green, wifi, readerInit, joinStarted, uidBytes, uid, json,
                   httpResponseCode, bpin, btimes, bms, bi, bret>>

LoopPause ==
    /\ pc = "pause"
    /\ log' = log \o <<EvDelay(2000)>>
    /\ pc' = "loop_return"
    /\ UNCHANGED <<red, green, wifi, readerInit, joinStarted, uidBytes, uid, json,
                   httpResponseCode, httpOpen, bpin, btimes, bms, bi, bret>>

LoopReturn ==
    /\ pc = "loop_return"
    /\ uid' = <<>>
    /\ json' = <<>>
    /\ httpResponseCode' = <<>>
    /\ log' = <<>>
    /\ pc' = "loop_poll"
    /\ UNCHANGED <<red, green, wifi, readerInit, joinStarted, uidBytes, httpOpen,
                   bpin, btimes, bms, bi, bret>>

(* ---------------------------------------------------------------------- *)
(* Environment: the WiFi link comes up or drops.                          *)
(* ---------------------------------------------------------------------- *)
NetChange ==
    /\ wifi' = ~wifi
    /\ UNCHANGED <<pc, red, green, readerInit, joinStarted, uidBytes, uid, json,
                   httpResponseCode, httpOpen, bpin, btimes, bms, bi, bret, log>>

Next ==
    \/ SetupInit
    \/ SetupWifiBegin
    \/ SetupNotConnected
    \/ SetupBootGreen
    \/ SetupConnected
    \/ SetupReady
    \/ BlinkHigh
    \/ BlinkLow
    \/ BlinkReturn
    \/ LoopNoCard
    \/ LoopCardRead
    \/ LoopBuildUid
    \/ LoopWifiConnected
    \/ LoopWifiNotConnected
    \/ LoopHttpPost
    \/ LoopHttpEnd
    \/ LoopPause
    \/ LoopReturn
    \/ NetChange

Spec == Init /\ [][Next]_vars

(* ---------------------------------------------------------------------- *)
(* The sketch keeps running: the Arduino core calls setup() once and then *)
(* loop() forever, and every blocking call (delay, http.POST) returns.    *)
(* Nothing is assumed of the WiFi link.                                   *)
(* ---------------------------------------------------------------------- *)
Control ==
    \/ SetupInit
    \/ SetupWifiBegin
    \/ SetupNotConnected
    \/ SetupBootGreen
    \/ SetupConnected
    \/ SetupReady
    \/ BlinkHigh
    \/ BlinkLow
    \/ BlinkReturn
    \/ LoopNoCard
    \/ LoopCardRead
    \/ LoopBuildUid
    \/ LoopWifiConnected
    \/ LoopWifiNotConnected
    \/ LoopHttpPost
    \/ LoopHttpEnd
    \/ LoopPause
    \/ LoopReturn

FairSpec == Spec /\ WF_vars(Control)

(* ---------------------------------------------------------------------- *)
(* Derived notions used by the properties.                                *)
(* ---------------------------------------------------------------------- *)
SetupPcs == {"setup_init", "wifi_begin", "connect_check", "boot_green", "ready_write"}

InBlink == pc \in {"blink", "blink_low"}

Position == IF InBlink THEN bret ELSE pc

DeviceState ==
    IF Position \in SetupPcs
    THEN IF joinStarted THEN "ConnectingNetwork" ELSE "Booting"
    ELSE "Ready"

RECURSIVE PatternEvents(_, _, _)
PatternEvents(p, times, ms) ==
    IF times = 0
    THEN <<>>
    ELSE <<EvWrite(p, HIGH), EvDelay(ms), EvWrite(p, LOW), EvDelay(ms)>>
         \o PatternEvents(p, times - 1, ms)

IsPrefix(s1, s2) == Len(s1) <= Len(s2) /\ SubSeq(s2, 1, Len(s1)) = s1

EvIdx(name) == {i \in DOMAIN log : log[i].ev = name}

InScan == log # <<>> /\ log[1].ev = "poll" /\ log[1].n = 1

UidBuilt == InScan /\ pc # "build_uid"

HexCharSet == {DigitChars[i] : i \in 1..16}

(* ---------------------------------------------------------------------- *)
(* C1: the UID string built in loop() has exactly two lowercase           *)
(* hexadecimal characters per raw byte, zero-padded, in input order, so   *)
(* bytes 04 a1 b2 give "04a1b2".                                          *)
(* ---------------------------------------------------------------------- *)
C1_TwoHexCharsPerByte ==
    UidBuilt =>
        /\ Len(uid) = 2 * Len(uidBytes)
        /\ \A i \in DOMAIN uid : uid[i] \in HexCharSet
        /\ \A i \in DOMAIN uidBytes :
              /\ 2 * i \in DOMAIN uid
              /\ uid[2 * i - 1] = DigitChars[(uidBytes[i] \div 16) + 1]
              /\ uid[2 * i] = DigitChars[(uidBytes[i] % 16) + 1]
        /\ (uidBytes = <<4, 161, 178>> => uid = <<"0", "4", "a", "1", "b", "2">>)

(* ---------------------------------------------------------------------- *)
(* C2: once the device is in Ready, the green light is on whenever no     *)
(* blink pattern is executing.                                            *)
(* ---------------------------------------------------------------------- *)
C2_GreenSolidInReady == (DeviceState = "Ready" /\ ~InBlink) => green

(* ---------------------------------------------------------------------- *)
(* C3: after the POST returns, exactly one outcome pattern is executed,   *)
(* chosen by the result code only: 200 -> green 3x200; any other positive *)
(* status -> red 3x200; a non-positive result -> red 5x100.               *)
(* ---------------------------------------------------------------------- *)
ClaimedOutcome(code) ==
    CASE code = 200 -> PatternEvents(GREEN_LED, 3, 200)
      [] code > 0 /\ code # 200 -> PatternEvents(RED_LED, 3, 200)
      [] code <= 0 -> PatternEvents(RED_LED, 5, 100)

AfterPost(i) == SubSeq(log, i + 1, Len(log))

CheckedNotConnected == InScan /\ \E i \in EvIdx("WiFi.status") : log[i].n = 0

NetUnavailableScan(bytes) ==
    <<EvPoll(TRUE, bytes)>> \o PatternEvents(RED_LED, 1, 150) \o <<EvStatus(FALSE)>>
    \o PatternEvents(RED_LED, 2, 400) \o <<EvDelay(2000)>>

C4_NoRequestWhenNotConnected ==
    CheckedNotConnected =>
        /\ EvIdx("http.begin") = {}
        /\ EvIdx("http.addHeader") = {}
        /\ EvIdx("http.POST") = {}
        /\ ~httpOpen
        /\ \A i \in EvIdx("digitalWrite") : log[i].pin = RED_LED
        /\ IsPrefix(log, NetUnavailableScan(log[1].b))
        /\ pc = "pause" => log \o <<EvDelay(2000)>> = NetUnavailableScan(log[1].b)
        /\ pc = "loop_return" => log = NetUnavailableScan(log[1].b)

C4_Witness ==
    /\ pc = "pause"
    /\ CheckedNotConnected
    /\ log = <<EvPoll(TRUE, <<18, 52>>)>> \o PatternEvents(RED_LED, 1, 150)
             \o <<EvStatus(FALSE)>> \o PatternEvents(RED_LED, 2, 400)

(* ---------------------------------------------------------------------- *)
(* C5 (as stated): connectivity is re-verified before the request, so no  *)
(* POST is issued from a state in which the network is not connected.     *)
(* ---------------------------------------------------------------------- *)
C5_NoPostWhileDisconnected == \A i \in EvIdx("http.POST") : log[i].link = "up"

(* ---------------------------------------------------------------------- *)
(* C5 (amended): connectivity is checked exactly once per scan, after the *)
(* tag-detected pattern and before the session is begun; a POST is issued *)
(* only in a scan whose check observed connected, and then whatever the   *)
(* link state at the moment of sending (there is no second check).        *)
(* ---------------------------------------------------------------------- *)
C5_PostOnlyAfterConnectedCheck ==
    /\ \A i \in EvIdx("http.POST") :
          /\ Cardinality(EvIdx("WiFi.status")) = 1
          /\ \A j \in EvIdx("WiFi.status") :
                /\ log[j].n = 1
                /\ j < i
                /\ SubSeq(log, 1, j - 1)
                      = <<EvPoll(TRUE, log[1].b)>> \o PatternEvents(RED_LED, 1, 150)
                /\ log[j + 1].ev = "http.begin"
    /\ pc = "http_post" => ENABLED LoopHttpPost

C5_Witness == \E i \in EvIdx("http.POST") : log[i].link = "down"

(* ---------------------------------------------------------------------- *)
(* C6: every scan of a tag executes exactly [tag-detected, network-       *)
(* unavailable] or [tag-detected, transmitting, one outcome pattern], the *)
(* tag-detected pattern complete before the connectivity check and the    *)
(* transmitting pattern complete before the request; then one 2000 ms     *)
(* pause.  Connected with a 200 response gives [tag-detected,             *)
(* transmitting, accepted].                                               *)
(* ---------------------------------------------------------------------- *)
ReportedScan(bytes, post, outcome) ==
    <<EvPoll(TRUE, bytes)>> \o PatternEvents(RED_LED, 1, 150)
    \o <<EvStatus(TRUE), EvBegin(serverURL), EvHeader("Content-Type", "application/json")>>
    \o PatternEvents(GREEN_LED, 2, 100) \o <<post>> \o outcome
    \o <<EvEnd, EvDelay(2000)>>

OutcomePatterns ==
    {PatternEvents(GREEN_LED, 3, 200), PatternEvents(RED_LED, 3, 200),
     PatternEvents(RED_LED, 5, 100)}

ScanShapes(bytes, post) ==
    {NetUnavailableScan(bytes)} \cup {ReportedScan(bytes, post, o) : o \in OutcomePatterns}

PostOf(l) ==
    IF \E i \in DOMAIN l : l[i].ev = "http.POST"
    THEN l[CHOOSE i \in DOMAIN l : l[i].ev = "http.POST"]
    ELSE EvEnd

C6_ScanPatternSequence ==
    InScan =>
        /\ \E shape \in ScanShapes(log[1].b, PostOf(log)) : IsPrefix(log, shape)
        /\ pc = "loop_return" => log \in ScanShapes(log[1].b, PostOf(log))
        /\ (pc = "loop_return" /\ PostOf(log).n = 200) =>
              log = ReportedScan(log[1].b, PostOf(log), PatternEvents(GREEN_LED, 3, 200))

C6_Witness ==
    /\ pc = "loop_return"
    /\ log = ReportedScan(<<18, 52>>,
                          EvPost(JsonBody(<<"1", "2", "3", "4">>), 200, TRUE),
                          PatternEvents(GREEN_LED, 3, 200))

(* ---------------------------------------------------------------------- *)
(* C7: Ready is never left: once the device is in Ready no step returns   *)
(* it to Booting or ConnectingNetwork, restarts the network join or       *)
(* re-issues the Ready signal; the link is only queried by the per-scan   *)
(* connectivity check.                                                    *)
(* ---------------------------------------------------------------------- *)
C7_ReadyNeverLeft ==
    [][(DeviceState = "Ready") =>
          /\ DeviceState' = "Ready"
          /\ joinStarted' = joinStarted
          /\ pc' \notin SetupPcs
          /\ (\E i \in DOMAIN log' : i > Len(log) /\ log'[i].ev = "WiFi.status")
                => pc = "wifi_check"]_vars

C7_Witness ==
    /\ DeviceState = "Ready"
    /\ pc = "loop_return"
    /\ ~wifi
    /\ CheckedNotConnected

(* ---------------------------------------------------------------------- *)
(* C8: every request is a POST to the configured endpoint with header     *)
(* Content-Type: application/json and body {"uid":"<identifier>"}, the    *)
(* identifier being the string built from the bytes read by the poll of   *)
(* the same loop iteration.                                               *)
(* ---------------------------------------------------------------------- *)
C8_RequestBody ==
    \A i \in EvIdx("http.POST") :
        /\ InScan
        /\ uid = UidString(log[1].b)
        /\ log[i].s = <<"{", "\"", "u", "i", "d", "\"", ":", "\"">> \o uid \o <<"\"", "}">>
        /\ \E j \in EvIdx("http.begin") : j < i /\ log[j].s = <<serverURL>>
        /\ \E j \in EvIdx("http.addHeader") :
              j < i /\ log[j].s = <<"Content-Type", "application/json">>

C8_Witness ==
    \E i \in EvIdx("http.POST") :
        /\ log[1].b = <<18, 52>>
        /\ log[i].s = <<"{", "\"", "u", "i", "d", "\"", ":", "\"",
                        "1", "2", "3", "4", "\"", "}">>

(* ---------------------------------------------------------------------- *)
(* C9: no exchange is retried: between the poll that detected a tag and   *)
(* the next poll at most one session is begun and at most one POST is     *)
(* issued, whatever its result, and nothing of the scan survives to the   *)
(* next poll.                                                             *)
(* ---------------------------------------------------------------------- *)
C9_NoRetry ==
    /\ Cardinality(EvIdx("http.POST")) <= 1
    /\ Cardinality(EvIdx("http.begin")) <= 1
    /\ pc \in {"http_end", "pause", "loop_return"} /\ httpResponseCode # <<>>
          => Cardinality(EvIdx("http.POST")) = 1
    /\ pc = "loop_poll" =>
          /\ log = <<>>
          /\ uid = <<>>
          /\ json = <<>>
          /\ httpResponseCode = <<>>

C9_Witness ==
    /\ pc = "loop_return"
    /\ httpResponseCode = <<-1>>
    /\ Cardinality(EvIdx("http.POST")) = 1

(* ---------------------------------------------------------------------- *)
(* C10: a handled tag is followed by exactly one 2000 ms pause, after the *)
(* last pattern and before the next poll; a poll that finds no card ends  *)
(* the iteration with no pause, no light change and no network activity.  *)
(* ---------------------------------------------------------------------- *)
PauseIdx(l) == {i \in DOMAIN l : l[i] = EvDelay(2000)}

C10_PauseAfterScan ==
    [][/\ (pc = "loop_return" /\ pc' = "loop_poll" /\ InScan) =>
             /\ PauseIdx(log) = {Len(log)}
             /\ log[Len(log) - 1] \in {EvEnd, EvDelay(400)}
       /\ (pc # "pause") => PauseIdx(log') = PauseIdx(log) \cap DOMAIN log'
       /\ (pc = "loop_poll" /\ pc' # "build_uid" /\ wifi' = wifi) =>
             /\ pc' = "loop_return"
             /\ log' = <<EvPoll(FALSE, <<>>)>>
             /\ red' = red /\ green' = green /\ httpOpen' = httpOpen
       /\ (pc = "loop_return" /\ ~InScan /\ wifi' = wifi) =>
             /\ pc' = "loop_poll"
             /\ red' = red /\ green' = green /\ httpOpen' = httpOpen]_vars

C10_Witness ==
    /\ pc = "loop_return"
    /\ InScan
    /\ httpResponseCode = <<503>>
    /\ PauseIdx(log) = {Len(log)}

C10_WitnessNoCard == pc = "loop_return" /\ log = <<EvPoll(FALSE, <<>>)>>

(* ---------------------------------------------------------------------- *)
(* C11: no state is carried over between scans: at the start of every     *)
(* reader poll the device is in the state of the first poll after Ready   *)
(* (green on, red off, no scan-local data, no open session).              *)
(* ---------------------------------------------------------------------- *)
C11_PollStateAsFirstPoll ==
    pc = "loop_poll" =>
        /\ green
        /\ ~red
        /\ uid = <<>>
        /\ json = <<>>
        /\ httpResponseCode = <<>>
        /\ ~httpOpen
        /\ log = <<>>

(* ---------------------------------------------------------------------- *)
(* C12: a pattern runs to completion uninterrupted: between its first     *)
(* on-toggle and its final off-toggle only the pattern's own light is     *)
(* written, no connectivity check, reader poll or HTTP operation occurs   *)
(* and no second pattern starts.                                          *)
(* ---------------------------------------------------------------------- *)
MidPattern == pc = "blink_low" \/ (pc = "blink" /\ 0 < bi /\ bi < btimes)

OtherLightKept == IF bpin = RED_LED THEN green' = green ELSE red' = red

C12_PatternNotInterleaved ==
    [][MidPattern =>
          /\ InBlink'
          /\ <<bpin', btimes', bms', bret'>> = <<bpin, btimes, bms, bret>>
          /\ bi' \in {bi, bi + 1}
          /\ OtherLightKept
          /\ <<uidBytes', uid', json', httpResponseCode', httpOpen'>>
                = <<uidBytes, uid, json, httpResponseCode, httpOpen>>
          /\ IsPrefix(log, log')
          /\ \A i \in DOMAIN log' :
                i > Len(log) => log'[i] \in {EvWrite(bpin, HIGH), EvWrite(bpin, LOW),
                                             EvDelay(bms)}]_vars

C12_Witness ==
    /\ pc = "blink"
    /\ bi = 1
    /\ btimes = 2
    /\ bpin = GREEN_LED
    /\ red = FALSE
    /\ httpOpen

(* ---------------------------------------------------------------------- *)
(* C13: blinkLED(pin, times, delayMs), times >= 1, performs exactly times *)
(* on-then-off cycles of the named light only, each phase held delayMs    *)
(* (2 * times * delayMs in total), leaves the named light off and the     *)
(* other light unchanged.                                                 *)
(* ---------------------------------------------------------------------- *)
RECURSIVE SumDelays(_)
SumDelays(l) ==
    IF l = <<>>
    THEN 0
    ELSE (IF Head(l).ev = "delay" THEN Head(l).n ELSE 0) + SumDelays(Tail(l))

BlinkEvents == 4 * bi + (IF pc = "blink_low" THEN 2 ELSE 0)

BlinkDone ==
    /\ bi <= btimes
    /\ btimes >= 1
    /\ BlinkEvents <= 4 * btimes
    /\ BlinkEvents <= Len(log)
    /\ SubSeq(log, Len(log) - BlinkEvents + 1, Len(log))
          = SubSeq(PatternEvents(bpin, btimes, bms), 1, BlinkEvents)
    /\ (pc = "blink" /\ bi > 0) => ~(IF bpin = RED_LED THEN red ELSE green)
    /\ (pc = "blink" /\ bi = btimes) =>
          /\ BlinkEvents = 4 * btimes
          /\ SumDelays(SubSeq(log, Len(log) - BlinkEvents + 1, Len(log)))
                = 2 * btimes * bms

C13_BlinkCycles ==
    [][/\ InBlink' => BlinkDone'
       /\ InBlink => OtherLightKept
       /\ (pc = "blink" /\ ~InBlink') => (bi = btimes /\ pc' = bret)]_vars

C13_Witness ==
    /\ pc = "blink"
    /\ bpin = RED_LED
    /\ btimes = 5
    /\ bi = 5
    /\ ~red
    /\ SumDelays(SubSeq(log, Len(log) - 19, Len(log))) = 1000

(* ---------------------------------------------------------------------- *)
(* C14: the network-join loop has no cap: a check that observes not       *)
(* connected always runs the Booting pattern (red 1x300 then green 1x300) *)
(* and re-checks, still in ConnectingNetwork; the loop is left only by a  *)
(* check that observes connected, which leads directly to Ready.          *)
(* ---------------------------------------------------------------------- *)
BootingIteration ==
    <<EvStatus(FALSE)>> \o PatternEvents(RED_LED, 1, 300) \o PatternEvents(GREEN_LED, 1, 300)

C14_JoinLoopUnbounded ==
    [][/\ (pc = "connect_check" /\ ~wifi) => ENABLED SetupNotConnected
       /\ (pc = "connect_check" /\ pc' # "connect_check") =>
             IF wifi
             THEN pc' = "ready_write" /\ log' = <<EvStatus(TRUE)>>
                  /\ red' = red /\ green' = green
             ELSE /\ pc' = "blink"
                  /\ <<bpin', btimes', bms', bret'>> = <<RED_LED, 1, 300, "boot_green">>
                  /\ log' = <<EvStatus(FALSE)>>
                  /\ DeviceState' = "ConnectingNetwork"
       /\ (pc = "boot_green" /\ pc' # "boot_green") =>
             /\ pc' = "blink"
             /\ <<bpin', btimes', bms', bret'>> = <<GREEN_LED, 1, 300, "connect_check">>
       /\ (pc # "connect_check" /\ pc' = "connect_check" /\ pc # "wifi_begin") =>
             /\ log = BootingIteration
             /\ DeviceState' = "ConnectingNetwork"
       /\ (pc # "ready_write" /\ pc' = "ready_write") => (pc = "connect_check" /\ wifi)
       /\ (DeviceState = "ConnectingNetwork" /\ DeviceState' # "ConnectingNetwork") =>
             /\ pc = "ready_write"
             /\ log = <<EvStatus(TRUE)>>
             /\ DeviceState' = "Ready"
             /\ green']_vars

C14_Witness ==
    /\ pc = "connect_check"
    /\ ~wifi
    /\ log = BootingIteration
    /\ DeviceState = "ConnectingNetwork"

(* ---------------------------------------------------------------------- *)
(* C16: as the LED protocol comment says, every scan whose request did    *)
(* not end in a 200 response (other status, or failed request) is         *)
(* signalled by the red light blinking exactly 3 times.                   *)
(* ---------------------------------------------------------------------- *)
RedBlinks(l) == Cardinality({j \in DOMAIN l : l[j] = EvWrite(RED_LED, HIGH)})

C16_ErrorIsRedThreeTimes ==
    \A i \in EvIdx("http.POST") :
        (pc = "http_end" /\ log[i].n # 200) =>
            /\ RedBlinks(AfterPost(i)) = 3
            /\ \A j \in DOMAIN AfterPost(i) :
                  AfterPost(i)[j].ev = "digitalWrite" => AfterPost(i)[j].pin = RED_LED

(* ---------------------------------------------------------------------- *)
(* C17: the reader is initialised before the network join is started;     *)
(* before Ready no reader poll and no HTTP operation happens; every poll  *)
(* and every request happens in Ready.                                    *)
(* ---------------------------------------------------------------------- *)
ReaderOrHttpEvents ==
    EvIdx("poll") \cup EvIdx("http.begin") \cup EvIdx("http.addHeader")
    \cup EvIdx("http.POST") \cup EvIdx("http.end")

C17_NothingBeforeReady ==
    /\ joinStarted => readerInit
    /\ pc \notin {"setup_init", "wifi_begin"} => joinStarted
    /\ DeviceState # "Ready" =>
          /\ ReaderOrHttpEvents = {}
          /\ ~httpOpen
          /\ uidBytes = <<>> /\ uid = <<>> /\ json = <<>> /\ httpResponseCode = <<>>
    /\ ReaderOrHttpEvents # {} => (DeviceState = "Ready" /\ readerInit /\ joinStarted)

C17_Witness ==
    /\ DeviceState = "Ready"
    /\ readerInit
    /\ EvIdx("poll") # {}
    /\ EvIdx("http.POST") # {}

(* ---------------------------------------------------------------------- *)
(* C19: the HTTP session is released on every path: a begun session is    *)
(* ended exactly once in the same scan, after the outcome pattern and     *)
(* before the pause, for every result; no session is begun without a      *)
(* connected check; no session is open at a reader poll.                  *)
(* ---------------------------------------------------------------------- *)
C19_SessionReleased ==
    /\ Cardinality(EvIdx("http.begin")) <= 1
    /\ Cardinality(EvIdx("http.end")) <= Cardinality(EvIdx("http.begin"))
    /\ httpOpen <=> (EvIdx("http.begin") # {} /\ EvIdx("http.end") = {})
    /\ pc \in {"loop_poll", "build_uid", "wifi_check"} => ~httpOpen
    /\ pc \in {"pause", "loop_return"} =>
          Cardinality(EvIdx("http.end")) = Cardinality(EvIdx("http.begin"))
    /\ EvIdx("http.begin") # {} => (InScan /\ ~CheckedNotConnected)
    /\ \A i \in EvIdx("http.end") :
          /\ \E j \in EvIdx("http.POST") :
                j < i /\ SubSeq(log, j + 1, i - 1) = ClaimedOutcome(log[j].n)
          /\ i < Len(log) => (i + 1 = Len(log) /\ log[i + 1] = EvDelay(2000))

C19_Witness ==
    /\ pc = "pause"
    /\ ~httpOpen
    /\ httpResponseCode = <<-11>>
    /\ EvIdx("http.begin") # {}
    /\ EvIdx("http.end") = {Len(log)}

(* ---------------------------------------------------------------------- *)
(* C20: the identifier string identifies the tag bytes: two distinct byte *)
(* sequences of the same length never give the same UID string.           *)
(* ---------------------------------------------------------------------- *)
C20_UidStringInjective ==
    UidBuilt =>
        \A other \in TagUids :
            (Len(other) = Len(uidBytes) /\ other # uidBytes) => UidString(other) # uid

(* ---------------------------------------------------------------------- *)
(* C15: there is no fatal-error state: every detected tag, whatever the   *)
(* outcome of its scan, is eventually followed by a new reader poll, and  *)
(* a scan that gets a 200 response executes the accepted sequence         *)
(* whatever happened in earlier scans.                                    *)
(* ---------------------------------------------------------------------- *)
AcceptedAsAlways ==
    (pc = "loop_return" /\ InScan /\ httpResponseCode = <<200>>) =>
        log = ReportedScan(log[1].b, EvPost(JsonBody(UidString(log[1].b)), 200, TRUE),
                           PatternEvents(GREEN_LED, 3, 200))
        \/ log = ReportedScan(log[1].b, EvPost(JsonBody(UidString(log[1].b)), 200, FALSE),
                              PatternEvents(GREEN_LED, 3, 200))

C15_AlwaysRecovers == [](AcceptedAsAlways) /\ (InScan ~> (pc = "loop_poll"))

C15_Witness ==
    /\ pc = "loop_return"
    /\ InScan
    /\ httpResponseCode = <<-1>>
    /\ ~green
    /\ uidBytes = <<18, 52>>

(* ---------------------------------------------------------------------- *)
(* C18: if the network becomes connected and stays connected, the device  *)
(* eventually is in Ready with the green light on; the join loop is left  *)
(* only by a loop check made while connected, so connectivity that comes  *)
(* and goes during a Booting pattern is not observed.                     *)
(* ---------------------------------------------------------------------- *)
C18_EventuallyReady ==
    /\ (<>[]wifi) => <>(DeviceState = "Ready" /\ green)
    /\ [][(pc # "ready_write" /\ pc' = "ready_write") =>
             (pc = "connect_check" /\ wifi)]_vars
    /\ [][(InBlink /\ Position \in SetupPcs /\ wifi' # wifi) =>
             (pc' = pc /\ log' = log /\ DeviceState' = "ConnectingNetwork")]_vars

C18_Witness ==
    /\ pc = "loop_poll"
    /\ DeviceState = "Ready"
    /\ green
    /\ wifi
    /\ uidBytes = <<>>

====
